---- MODULE Spec2Model ----
(***************************************************************************)
(* IDBCursorBackendImpl (Source/WebCore/storage/IDBCursorBackendImpl.cpp): *)
(* a cursor over a prepared, forward-only SQLite statement.  The cursor is *)
(* advanced by tasks scheduled on its transaction; rows may be deleted     *)
(* from the authoritative table by other work of the same transaction      *)
(* between two tasks.                                                      *)
(***************************************************************************)
EXTENDS Integers, Sequences, FiniteSets, TLC

\* ------------------------------------------------------------------ bounds
MaxRows == 3
MaxKey == 2
MaxCalls == 2

\* --------------------------------------------------------------- constants
\* IDBCursorBackendImpl::InvalidId, the row id of "no current row".
InvalidId == 0
\* The null RefPtr / OwnPtr (m_query = 0, m_currentKey = 0, a null prpKey).
Absent == 0

NEXT == "NEXT"
NEXT_NO_DUPLICATE == "NEXT_NO_DUPLICATE"
PREV == "PREV"
PREV_NO_DUPLICATE == "PREV_NO_DUPLICATE"
Directions == {NEXT, NEXT_NO_DUPLICATE, PREV, PREV_NO_DUPLICATE}

NO_ERROR == "NO_ERROR"
NOT_ALLOWED_ERR == "NOT_ALLOWED_ERR"

Keys == 1..MaxKey

VARIABLES
    rows,                           \* the rows the prepared statement yields, in its order: rows[i] is the key (column 1) of the row with id i
    live,                           \* ids of the rows still present in ObjectStoreData / IndexData
    storeFault,                     \* which SQLite call fails from now on: "none", "step" (m_query->step()) or "exists" (the step of currentRowExists)
    indexCursor,                    \* TRUE when the statement ranges over IndexData (column 5 is a key)
    m_direction,
    m_isSerializedScriptValueCursor,
    m_query,                        \* Absent, or the number of the row the statement stands on
    m_currentId,
    m_currentKey,
    m_currentSerializedScriptValue,
    m_currentIDBKeyValue,
    transactionOpen,                \* the transaction still accepts tasks
    tasks,                          \* the transaction's queue of scheduled continueFunctionInternal tasks
    callbackLog,                    \* every IDBCallbacks::onSuccess made so far, in order
    targeted,                       \* some task that has run carried a target key
    fetched,                        \* every row the statement was stepped onto by a task, with the outcome of its existence check
    lastCall,                       \* the latest call of the cursor's interface: the ExceptionCode it left and the calls it made on m_objectStore
    ncalls                          \* number of continueFunction calls so far; the n-th call's callbacks are tagged n

cursorVars == <<m_query, m_currentId, m_currentKey, m_currentSerializedScriptValue, m_currentIDBKeyValue>>
fixedVars == <<rows, indexCursor, m_direction, m_isSerializedScriptValueCursor>>
vars == <<rows, live, storeFault, indexCursor, m_direction, m_isSerializedScriptValueCursor,
          m_query, m_currentId, m_currentKey, m_currentSerializedScriptValue,
          m_currentIDBKeyValue, transactionOpen, tasks, callbackLog, targeted, fetched,
          lastCall, ncalls>>

\* ------------------------------------------------------- the backing store
\* Column 0 of row i: its id.  SQLite row ids start at 1.
rowId(i) == i
\* Column 1 of row i: its key.
rowKey(i) == rows[i]
\* Column 4 of row i: the wire form of its value, decoded by createFromWire.
rowValue(i) == MaxKey + MaxRows + i
\* Column 5 of row i: the primary key an IndexData row points to; null for ObjectStoreData.
rowPrimaryKey(i) == IF indexCursor THEN MaxKey + i ELSE Absent

\* m_query->step() == SQLResultRow, for a statement standing on row q: a
\* step that fails returns an error code, which is not SQLResultRow.
stepHasRow(q) == storeFault # "step" /\ q < Len(rows)

\* The order a statement yields its rows in: ascending keys for NEXT*,
\* descending for PREV*; ObjectStoreData keys are unique.
InQueryOrder(r, dir, isIndex) ==
    \A i \in 1..(Len(r) - 1) :
        /\ dir \in {NEXT, NEXT_NO_DUPLICATE} => r[i] <= r[i + 1]
        /\ dir \in {PREV, PREV_NO_DUPLICATE} => r[i] >= r[i + 1]
        /\ ~isIndex => r[i] # r[i + 1]

KeySeqs == UNION {[1..n -> Keys] : n \in 1..MaxRows}

\* ------------------------------------------------------------------ cursor
\* IDBCursorBackendImpl::loadCurrentRow, for a statement standing on row q.
loadCurrentRow(q, oldValue) ==
    [m_currentId |-> rowId(q),
     m_currentKey |-> rowKey(q),
     m_currentSerializedScriptValue |->
         IF m_isSerializedScriptValueCursor THEN rowValue(q) ELSE oldValue,
     m_currentIDBKeyValue |-> rowPrimaryKey(q)]

\* currentRowExists without its query: every row is taken to be there.
currentRowExistsUnchecked(id) == TRUE

\* IDBCursorBackendImpl::currentRowExists: statement.step() == SQLResultRow,
\* which a failing step is not.
currentRowExists(id) == storeFault # "exists" /\ id \in live

Init ==
    /\ m_direction \in Directions
    /\ indexCursor \in BOOLEAN
    /\ m_isSerializedScriptValueCursor \in BOOLEAN
    /\ rows \in {r \in KeySeqs : InQueryOrder(r, m_direction, indexCursor)}
    /\ live = 1..Len(rows)
    /\ storeFault = "none"
    /\ m_query = 1
    /\ m_currentId = loadCurrentRow(1, Absent).m_currentId
    /\ m_currentKey = loadCurrentRow(1, Absent).m_currentKey
    /\ m_currentSerializedScriptValue = loadCurrentRow(1, Absent).m_currentSerializedScriptValue
    /\ m_currentIDBKeyValue = loadCurrentRow(1, Absent).m_currentIDBKeyValue
    /\ transactionOpen = TRUE
    /\ tasks = <<>>
    /\ callbackLog = <<>>
    /\ fetched = <<>>
    /\ targeted = FALSE
    /\ lastCall = [ec |-> NO_ERROR, container |-> <<>>]
    /\ ncalls = 0

\* The cursor's position as a record.
position ==
    [m_currentId |-> m_currentId,
     m_currentKey |-> m_currentKey,
     m_currentSerializedScriptValue |-> m_currentSerializedScriptValue,
     m_currentIDBKeyValue |-> m_currentIDBKeyValue]

\* stopsAtRow with the comparison with oldKey made for every direction.
stopsAtRowCollapsingAlways(key, cur, oldKey) ==
    IF key # Absent /\ key # cur.m_currentKey
    THEN FALSE
    ELSE cur.m_currentKey # oldKey

\* stopsAtRow without the comparison with oldKey.
stopsAtRowKeepingDuplicates(key, cur, oldKey) ==
    ~(key # Absent /\ key # cur.m_currentKey)

\* continueFunctionInternal, the tests after the existence check: TRUE is
\* "break", FALSE is "continue".  key is the task's target key, cur the row
\* just loaded, oldKey the value m_currentKey had before it was loaded.
stopsAtRow(key, cur, oldKey) ==
    IF key # Absent /\ key # cur.m_currentKey
    THEN FALSE
    ELSE IF m_direction = NEXT \/ m_direction = PREV
    THEN TRUE
    ELSE cur.m_currentKey # oldKey

\* noFurtherRow without the test of m_query: a released statement is stepped
\* like one that stands before its first row.
noFurtherRowSteppingReleased(q) == ~stepHasRow(q)

\* continueFunctionInternal: !cursor->m_query || cursor->m_query->step() != SQLResultRow
noFurtherRow(q) == q = Absent \/ ~stepHasRow(q)

\* onExhausted without its callbacks->onSuccess.
onExhaustedSilent(log) ==
    [m_query |-> Absent,
     m_currentId |-> InvalidId,
     m_currentKey |-> Absent,
     m_currentSerializedScriptValue |-> Absent,
     m_currentIDBKeyValue |-> Absent,
     callbacks |-> <<>>,
     fetched |-> log]

\* onExhausted without the reset of m_currentKey.
onExhaustedKeepingKey(log) ==
    [m_query |-> Absent,
     m_currentId |-> InvalidId,
     m_currentKey |-> m_currentKey,
     m_currentSerializedScriptValue |-> Absent,
     m_currentIDBKeyValue |-> Absent,
     callbacks |-> <<[result |-> "null", id |-> InvalidId, key |-> Absent]>>,
     fetched |-> log]

\* continueFunctionInternal, the branch taken when there is no statement or
\* it has no further row: the state it leaves and the callbacks it makes.
onExhausted(log) ==
    [m_query |-> Absent,
     m_currentId |-> InvalidId,
     m_currentKey |-> Absent,
     m_currentSerializedScriptValue |-> Absent,
     m_currentIDBKeyValue |-> Absent,
     callbacks |-> <<[result |-> "null", id |-> InvalidId, key |-> Absent]>>,
     fetched |-> log]

\* continueFunctionInternal after the loop: callbacks->onSuccess(cursor.get()).
onAccepted(q, cur, log) ==
    [m_query |-> q,
     m_currentId |-> cur.m_currentId,
     m_currentKey |-> cur.m_currentKey,
     m_currentSerializedScriptValue |-> cur.m_currentSerializedScriptValue,
     m_currentIDBKeyValue |-> cur.m_currentIDBKeyValue,
     callbacks |-> <<[result |-> "cursor", id |-> cur.m_currentId, key |-> cur.m_currentKey]>>,
     fetched |-> log]

\* continueFunctionInternal's while (true) loop, from a statement standing
\* on row q (or Absent) with position cur; log collects the rows stepped onto.
RECURSIVE continueLoop(_, _, _, _)
continueLoop(q, cur, key, log) ==
    IF noFurtherRow(q)
    THEN onExhausted(log)
    ELSE LET oldKey == cur.m_currentKey
             loaded == loadCurrentRow(q + 1, cur.m_currentSerializedScriptValue)
             seen == Append(log, [id |-> loaded.m_currentId,
                                  live |-> loaded.m_currentId \in live])
         IN  IF ~currentRowExists(loaded.m_currentId)
             THEN continueLoop(q + 1, loaded, key, seen)
             ELSE IF stopsAtRow(key, loaded, oldKey)
             THEN onAccepted(q + 1, loaded, seen)
             ELSE continueLoop(q + 1, loaded, key, seen)

\* IDBCursorBackendImpl::continueFunctionInternal
continueFunctionInternal(key) == continueLoop(m_query, position, key, <<>>)

\* IDBTransactionBackendInterface::scheduleTask: FALSE when the transaction
\* no longer takes tasks, and then nothing is queued.
scheduleTask == transactionOpen

\* continueFunction without the assignment to ec.
continueFunctionIgnoringRefusal(key, call) ==
    IF ~scheduleTask
    THEN [tasks |-> tasks, ec |-> NO_ERROR]
    ELSE [tasks |-> Append(tasks, [call |-> call, key |-> key]), ec |-> NO_ERROR]

\* continueFunction with the test update and deleteFunction start with.
continueFunctionRefusingExhausted(key, call) ==
    IF m_query = Absent \/ ~scheduleTask
    THEN [tasks |-> tasks, ec |-> NOT_ALLOWED_ERR]
    ELSE [tasks |-> Append(tasks, [call |-> call, key |-> key]), ec |-> NO_ERROR]

\* IDBCursorBackendImpl::continueFunction for the call numbered call: the
\* queue and the ExceptionCode it leaves.
continueFunction(key, call) ==
    IF ~scheduleTask
    THEN [tasks |-> tasks, ec |-> NOT_ALLOWED_ERR]
    ELSE [tasks |-> Append(tasks, [call |-> call, key |-> key]), ec |-> NO_ERROR]

\* A caller calls continueFunction, with or without a target key.
ContinueFunction ==
    /\ ncalls < MaxCalls
    /\ \E key \in Keys \cup {Absent} :
        /\ tasks' = continueFunction(key, ncalls + 1).tasks
        /\ lastCall' = [ec |-> continueFunction(key, ncalls + 1).ec, container |-> <<>>]
    /\ ncalls' = ncalls + 1
    /\ UNCHANGED <<fixedVars, storeFault, live, cursorVars, transactionOpen, callbackLog,
                   targeted, fetched>>

\* takeTask for a transaction that runs the task submitted last first.
takeTaskNewestFirst(queue) ==
    [task |-> queue[Len(queue)], rest |-> SubSeq(queue, 1, Len(queue) - 1)]

\* The task the transaction runs next and the queue it leaves: tasks of one
\* transaction run one at a time, in submission order.
takeTask(queue) == [task |-> Head(queue), rest |-> Tail(queue)]

\* The transaction runs the next task of its queue.
RunTask ==
    /\ tasks # <<>>
    /\ LET t == takeTask(tasks).task
           r == continueFunctionInternal(t.key)
       IN  /\ m_query' = r.m_query
           /\ m_currentId' = r.m_currentId
           /\ m_currentKey' = r.m_currentKey
           /\ m_currentSerializedScriptValue' = r.m_currentSerializedScriptValue
           /\ m_currentIDBKeyValue' = r.m_currentIDBKeyValue
           /\ callbackLog' = callbackLog \o
                  [j \in 1..Len(r.callbacks) |->
                      [call |-> t.call,
                       result |-> r.callbacks[j].result,
                       id |-> r.callbacks[j].id, key |-> r.callbacks[j].key]]
           /\ fetched' = fetched \o r.fetched
           /\ targeted' = (targeted \/ t.key # Absent)
    /\ tasks' = takeTask(tasks).rest
    /\ UNCHANGED <<fixedVars, storeFault, live, transactionOpen, lastCall, ncalls>>

\* updateRejected without the test of m_isSerializedScriptValueCursor.
updateRejectedForgettingKind ==
    m_query = Absent \/ m_currentId = InvalidId

\* update's test for NOT_ALLOWED_ERR.
updateRejected ==
    m_query = Absent \/ m_currentId = InvalidId \/ ~m_isSerializedScriptValueCursor

\* updateKey for an update that waits behind the queued tasks: the key of
\* the row the next task will stop at.
updateKeyBehindPendingTask ==
    IF tasks # <<>>
    THEN LET r == continueFunctionInternal(Head(tasks).key)
         IN  IF r.m_currentIDBKeyValue # Absent THEN r.m_currentIDBKeyValue
             ELSE r.m_currentKey
    ELSE IF m_currentIDBKeyValue # Absent THEN m_currentIDBKeyValue ELSE m_currentKey

\* The key update hands to m_objectStore->put.
updateKey == IF m_currentIDBKeyValue # Absent THEN m_currentIDBKeyValue ELSE m_currentKey

\* A caller calls IDBCursorBackendImpl::update.
Update ==
    /\ IF updateRejected
       THEN lastCall' = [ec |-> NOT_ALLOWED_ERR, container |-> <<>>]
       ELSE lastCall' = [ec |-> NO_ERROR,
                         container |-> <<[op |-> "put", key |-> updateKey,
                                          mode |-> "CursorUpdate"]>>]
    /\ UNCHANGED <<fixedVars, storeFault, live, cursorVars, transactionOpen, tasks,
                   callbackLog, targeted, fetched, ncalls>>

\* deleteFunction's test for NOT_ALLOWED_ERR.
deleteRejected ==
    m_query = Absent \/ m_currentId = InvalidId \/ ~m_isSerializedScriptValueCursor

\* deleteKey without the preference for m_currentIDBKeyValue.
deleteKeyIgnoringPrimaryKey == m_currentKey

\* The key deleteFunction hands to m_objectStore->deleteFunction.
deleteKey == IF m_currentIDBKeyValue # Absent THEN m_currentIDBKeyValue ELSE m_currentKey

\* A caller calls IDBCursorBackendImpl::deleteFunction.
DeleteFunction ==
    /\ IF deleteRejected
       THEN lastCall' = [ec |-> NOT_ALLOWED_ERR, container |-> <<>>]
       ELSE lastCall' = [ec |-> NO_ERROR,
                         container |-> <<[op |-> "deleteFunction", key |-> deleteKey,
                                          mode |-> "none"]>>]
    /\ UNCHANGED <<fixedVars, storeFault, live, cursorVars, transactionOpen, tasks,
                   callbackLog, targeted, fetched, ncalls>>

\* A row of the authoritative table is deleted by other work of the
\* transaction.  Only rows the statement has yet to reach are considered:
\* the cursor never looks again at a row it has stepped past.
DeleteRow ==
    /\ m_query # Absent
    /\ \E i \in live : i > m_query /\ live' = live \ {i}
    /\ UNCHANGED <<fixedVars, storeFault, cursorVars, transactionOpen, tasks, callbackLog,
                   targeted, fetched, lastCall, ncalls>>

\* The transaction starts finishing: from now on scheduleTask refuses.
FinishTransaction ==
    /\ transactionOpen
    /\ transactionOpen' = FALSE
    /\ UNCHANGED <<fixedVars, storeFault, live, cursorVars, tasks, callbackLog, targeted,
                   fetched, lastCall, ncalls>>

Next ==
    \/ ContinueFunction
    \/ RunTask
    \/ Update
    \/ DeleteFunction
    \/ DeleteRow
    \/ FinishTransaction

Spec == Init /\ [][Next]_vars

\* A call of SQLite starts to fail: the statement's step, or the step of the
\* existence check.
StoreFails ==
    /\ storeFault = "none"
    /\ storeFault' \in {"step", "exists"}
    /\ UNCHANGED <<fixedVars, live, cursorVars, transactionOpen, tasks,
                   callbackLog, targeted, fetched, lastCall, ncalls>>

NextFaulty ==
    \/ Next
    \/ StoreFails

\* The cursor over a backing store whose calls can fail.
SpecFaulty == Init /\ [][NextFaulty]_vars

\* continueFunction is called only before the first task has run.
ContinueFunctionBeforeRun ==
    /\ callbackLog = <<>>
    /\ ContinueFunction

NextBatch ==
    \/ ContinueFunctionBeforeRun
    \/ RunTask
    \/ Update
    \/ DeleteFunction
    \/ DeleteRow
    \/ FinishTransaction

\* The cursor with every continueFunction call made before any task runs.
SpecBatch == Init /\ [][NextBatch]_vars

\* ------------------------------------------------------------------ claims
NoDuplicate == m_direction \in {NEXT_NO_DUPLICATE, PREV_NO_DUPLICATE}
Plain == m_direction \in {NEXT, PREV}

\* The cursor has no position.
Cleared ==
    /\ m_currentId = InvalidId
    /\ m_currentKey = Absent
    /\ m_currentSerializedScriptValue = Absent
    /\ m_currentIDBKeyValue = Absent

\* The callbacks that reported a position, and the empty-result callbacks.
Positioned == {j \in DOMAIN callbackLog : callbackLog[j].result = "cursor"}
Empty == {j \in DOMAIN callbackLog : callbackLog[j].result = "null"}

\* The callback continueFunctionInternal makes on exhaustion, for call c.
EmptyResult(c) == [call |-> c, result |-> "null", id |-> InvalidId, key |-> Absent]

\* Number of deliveries that carry key K: the position the constructor
\* loaded, and every callback that reported a position.
KeyDeliveries(K) ==
    (IF rows[1] = K THEN 1 ELSE 0)
        + Cardinality({j \in Positioned : callbackLog[j].key = K})

\* Every row of key K that a task stepped onto was live at that moment.
GroupLiveWhenFetched(K) ==
    \A k \in DOMAIN fetched : rows[fetched[k].id] = K => fetched[k].live

LiveAhead == {i \in live : m_query # Absent /\ i > m_query}
FirstOf(S) == CHOOSE i \in S : \A j \in S : i <= j

\* C3: a task never reports a row that is gone from its table: every row it
\* steps onto and finds deleted is passed over, and the task ends on a live
\* row further on or exhausted; a plain cursor without a target key ends on
\* the first live row ahead, or exhausted when there is none.
C3_DeletedRowNeverDelivered ==
    [][RunTask =>
        /\ \A j \in DOMAIN callbackLog' :
              callbackLog'[j].result = "cursor"
                  => \E k \in DOMAIN fetched' :
                        /\ fetched'[k].id = callbackLog'[j].id
                        /\ fetched'[k].live
        /\ \/ m_query' = Absent /\ Cleared'
           \/ m_currentId' \in LiveAhead
        /\ (Plain /\ Head(tasks).key = Absent) =>
              IF LiveAhead = {}
              THEN m_query' = Absent
              ELSE m_currentId' = FirstOf(LiveAhead)]_vars

\* C3 witness: a task stepped onto a deleted row and reported a later row.
C3_Witness ==
    \E k \in DOMAIN fetched :
        /\ ~fetched[k].live
        /\ \E j \in Positioned :
              /\ callbackLog[j].id > fetched[k].id
              /\ m_currentId = callbackLog[j].id

\* K lies ahead of key a in the cursor's direction.
Before(a, K) ==
    IF m_direction \in {NEXT, NEXT_NO_DUPLICATE} THEN a < K ELSE a > K

\* C4 (as stated): a task with target key K, run on a cursor positioned
\* before K, ends on a live row of key K when a live row of key K lies ahead
\* of the statement, and exhausted otherwise.
C4_TargetKeyReached ==
    [][(/\ RunTask
        /\ m_query # Absent
        /\ Head(tasks).key # Absent
        /\ Before(m_currentKey, Head(tasks).key))
          => IF \E i \in LiveAhead : rows[i] = Head(tasks).key
             THEN /\ m_query' # Absent
                  /\ m_currentKey' = Head(tasks).key
                  /\ m_currentId' \in live
             ELSE m_query' = Absent]_vars

\* The ids in the callbacks that reported a position, in callback order.
RECURSIVE DeliveredIds(_)
DeliveredIds(log) ==
    IF log = <<>>
    THEN <<>>
    ELSE (IF Head(log).result = "cursor" THEN <<Head(log).id>> ELSE <<>>)
            \o DeliveredIds(Tail(log))

\* The ids of the rows that were live when a task stepped onto them, in
\* the order they were stepped onto.
RECURSIVE LiveFetchedIds(_)
LiveFetchedIds(log) ==
    IF log = <<>>
    THEN <<>>
    ELSE (IF Head(log).live THEN <<Head(log).id>> ELSE <<>>)
            \o LiveFetchedIds(Tail(log))

\* C5: for a plain (Next or Prev) cursor advanced without target keys, the
\* rows reported by the callbacks are exactly the rows after the first that
\* were live when stepped onto, each once, in the statement's row order; and
\* an exhausted cursor has stepped onto every row after the first.
C5_PlainDeliversEveryLiveRow ==
    (Plain /\ ~targeted) =>
        /\ DeliveredIds(callbackLog) = LiveFetchedIds(fetched)
        /\ \A k \in DOMAIN fetched : fetched[k].id = k + 1
        /\ m_query = Absent => Len(fetched) = Len(rows) - 1

\* C5 witness: a plain cursor, exhausted without target keys, that reported
\* a row whose key duplicates the first row's.
C5_Witness ==
    /\ Plain /\ ~targeted /\ m_query = Absent
    /\ \E j \in Positioned : callbackLog[j].key = rows[1]

\* C6: a task that runs makes exactly one callback, for its own call, with
\* the cursor when it ended positioned and with the empty result when it
\* ended exhausted; nothing else makes a callback.
C6_OneCallbackPerTask ==
    [][IF RunTask
       THEN \E e \in {callbackLog'[j] : j \in DOMAIN callbackLog'} :
              /\ callbackLog' = Append(callbackLog, e)
              /\ e.call = Head(tasks).call
              /\ \A j \in DOMAIN callbackLog : callbackLog[j].call # e.call
              /\ IF m_query' = Absent
                 THEN e.result = "null"
                 ELSE e.result = "cursor" /\ e.id = m_currentId' /\ e.key = m_currentKey'
       ELSE callbackLog' = callbackLog]_vars

\* C6 witness: one task reported a position and a later one the empty result.
C6_Witness ==
    \E j \in Positioned : \E k \in Empty :
        j < k /\ callbackLog[j].call < callbackLog[k].call

\* C7: the task that exhausts the cursor releases the statement, clears the
\* position and makes one empty-result callback; from then on the statement
\* stays released and the position stays cleared, whatever is called.
C7_ExhaustionIsTerminal ==
    [][/\ (m_query # Absent /\ m_query' = Absent) =>
            /\ Cleared'
            /\ callbackLog' = Append(callbackLog, EmptyResult(Head(tasks).call))
       /\ m_query = Absent => (m_query' = Absent /\ Cleared /\ Cleared')]_vars

\* C7 witness: after exhaustion a further task ran and update or
\* deleteFunction was refused; the cursor is still exhausted.
C7_Witness ==
    /\ m_query = Absent /\ Cleared
    /\ Cardinality(Empty) = 2
    /\ lastCall.ec = NOT_ALLOWED_ERR
    /\ transactionOpen

\* C8: m_currentId is InvalidId exactly when m_currentKey is absent.
C8_InvalidIdIffNoKey ==
    (m_currentId = InvalidId) <=> (m_currentKey = Absent)

\* C8 witness: an exhausted cursor that had advanced to a row before.
C8_Witness ==
    /\ m_currentId = InvalidId /\ m_currentKey = Absent
    /\ Positioned # {} /\ Empty # {}

\* update and deleteFunction must refuse.
MutationNotAllowed ==
    \/ m_query = Absent
    \/ m_currentId = InvalidId
    \/ m_currentKey = Absent
    \/ ~m_isSerializedScriptValueCursor

\* C9: update and deleteFunction leave NOT_ALLOWED_ERR, make no call on
\* m_objectStore and change nothing of the cursor when it has no statement,
\* no position or is no value cursor.
C9_MutationRefused ==
    [][((Update \/ DeleteFunction) /\ MutationNotAllowed)
          => /\ lastCall'.ec = NOT_ALLOWED_ERR
             /\ lastCall'.container = <<>>
             /\ UNCHANGED <<cursorVars, fixedVars, tasks, callbackLog>>]_vars

\* C9 witness: update or deleteFunction was refused on a positioned cursor
\* that is no value cursor, after an advance.
C9_Witness ==
    /\ lastCall.ec = NOT_ALLOWED_ERR
    /\ transactionOpen
    /\ m_query # Absent /\ m_currentId # InvalidId
    /\ ~m_isSerializedScriptValueCursor
    /\ Positioned # {}

\* The key update and deleteFunction must address.
MutationTarget ==
    IF m_currentIDBKeyValue # Absent THEN m_currentIDBKeyValue ELSE m_currentKey

\* C10: an accepted update makes exactly one call on m_objectStore, put with
\* mode CursorUpdate, and an accepted deleteFunction exactly one, deleteFunction;
\* the key is m_currentIDBKeyValue when present and m_currentKey otherwise.
C10_MutationRouted ==
    [][/\ (Update /\ ~MutationNotAllowed) =>
            /\ lastCall'.ec = NO_ERROR
            /\ lastCall'.container =
                  <<[op |-> "put", key |-> MutationTarget, mode |-> "CursorUpdate"]>>
       /\ (DeleteFunction /\ ~MutationNotAllowed) =>
            /\ lastCall'.ec = NO_ERROR
            /\ lastCall'.container =
                  <<[op |-> "deleteFunction", key |-> MutationTarget, mode |-> "none"]>>]_vars

\* C10 witness: after an advance, deleteFunction on an index cursor addressed
\* the primary key of the row, which differs from the cursor's key.
C10_Witness ==
    /\ Positioned # {}
    /\ Len(lastCall.container) = 1
    /\ lastCall.container[1].op = "deleteFunction"
    /\ m_currentIDBKeyValue # Absent
    /\ lastCall.container[1].key = m_currentIDBKeyValue
    /\ lastCall.container[1].key # m_currentKey

\* The continueFunction calls that have a task queued or have had a callback.
CallIds ==
    {tasks[j].call : j \in DOMAIN tasks}
        \cup {callbackLog[j].call : j \in DOMAIN callbackLog}

\* C11: a continueFunction call that scheduleTask refuses leaves
\* NOT_ALLOWED_ERR, queues no task, makes no callback and changes nothing of
\* the cursor; a call gets a task or a callback only by being accepted, so
\* no task ever runs for a refused call.
C11_RefusedContinueHasNoEffect ==
    [][/\ (ContinueFunction /\ ~transactionOpen) =>
            /\ lastCall'.ec = NOT_ALLOWED_ERR
            /\ tasks' = tasks
            /\ callbackLog' = callbackLog
            /\ UNCHANGED cursorVars
            /\ ncalls' \notin CallIds'
       /\ CallIds' \subseteq
            CallIds \cup (IF ContinueFunction /\ transactionOpen THEN {ncalls'} ELSE {})]_vars

\* C11 witness: the second continueFunction call was refused: it has neither
\* task nor callback, the first call's task ran and left a position.
C11_Witness ==
    /\ ~transactionOpen
    /\ ncalls = 2 /\ tasks = <<>>
    /\ Len(callbackLog) = 1 /\ callbackLog[1].call = 1
    /\ lastCall.ec = NOT_ALLOWED_ERR
    /\ m_query # Absent /\ m_currentId = callbackLog[1].id

\* C12 (as stated): a task during which a call of SQLite fails reports no
\* success: not the empty result when the statement's step fails, and the
\* row is not passed over as deleted when the existence check's step fails.
C12_StoreFailureNotAbsorbed ==
    [][(/\ RunTask
        /\ m_query # Absent
        /\ \/ storeFault = "step"
           \/ storeFault = "exists" /\ m_query < Len(rows))
          => callbackLog' = callbackLog]_vars

\* C13: with the continueFunction calls all accepted before any task runs,
\* the k-th callback answers the k-th call and the queue holds the later
\* calls in submission order; each callback reports a row further on than
\* the one before it (or the empty result, and then so do all later ones),
\* and the latest callback reports the position the cursor is left in.
C13_TasksRunInSubmissionOrder ==
    /\ \A k \in DOMAIN callbackLog : callbackLog[k].call = k
    /\ \A j \in DOMAIN tasks : tasks[j].call = Len(callbackLog) + j
    /\ \A k \in DOMAIN callbackLog :
          /\ callbackLog[k].result = "cursor" => callbackLog[k].id > 1
          /\ k > 1 =>
                IF callbackLog[k - 1].result = "null"
                THEN callbackLog[k].result = "null"
                ELSE callbackLog[k].result = "cursor"
                        => callbackLog[k].id > callbackLog[k - 1].id
    /\ callbackLog # <<>> =>
          /\ callbackLog[Len(callbackLog)].id = m_currentId
          /\ callbackLog[Len(callbackLog)].key = m_currentKey

\* C13 witness: two calls were queued before either ran; both tasks have run
\* and reported successive rows.
C13_Witness ==
    /\ Len(callbackLog) = 2
    /\ callbackLog[1].result = "cursor" /\ callbackLog[2].result = "cursor"
    /\ callbackLog[1].id < callbackLog[2].id
    /\ m_currentId = callbackLog[2].id

\* The keys the caller has been given, in order: the key of the row the
\* constructor loaded, then the key of every callback that reported a position.
RECURSIVE DeliveredKeys(_)
DeliveredKeys(log) ==
    IF log = <<>>
    THEN <<>>
    ELSE (IF Head(log).result = "cursor" THEN <<Head(log).key>> ELSE <<>>)
            \o DeliveredKeys(Tail(log))
Deliveries == <<rows[1]>> \o DeliveredKeys(callbackLog)

\* The keys of a sequence of rows with every run of equal adjacent keys
\* reduced to one.
RECURSIVE DistinctKeys(_)
DistinctKeys(r) ==
    IF Len(r) <= 1
    THEN r
    ELSE (IF r[1] = r[2] THEN <<>> ELSE <<r[1]>>) \o DistinctKeys(Tail(r))

\* Every row a task stepped onto was live at that moment.
AllLiveWhenFetched == \A k \in DOMAIN fetched : fetched[k].live

\* C14: a NoDuplicate cursor whose rows were all live when fetched, advanced
\* without target keys until exhaustion, has delivered exactly the distinct
\* keys of its rows, in the statement's order, each once.
C14_NoDuplicateDeliversDistinctKeys ==
    (NoDuplicate /\ ~targeted /\ m_query = Absent /\ AllLiveWhenFetched)
        => Deliveries = DistinctKeys(rows)

\* C14 witness: exhausted over three live rows of which the first two share
\* their key; two keys were delivered.
C14_Witness ==
    /\ NoDuplicate /\ ~targeted /\ m_query = Absent /\ AllLiveWhenFetched
    /\ Len(rows) = 3 /\ rows[1] = rows[2] /\ rows[2] # rows[3]
    /\ Deliveries = <<rows[1], rows[3]>>

\* The live rows ahead of the statement whose key differs from the key
\* delivered last.
LiveAheadWithNewKey == {i \in LiveAhead : rows[i] # m_currentKey}

\* C15 (as stated): a task without target key on a NoDuplicate cursor ends
\* on the first live row ahead whose key differs from the key delivered
\* last, whenever there is one; deleted rows before it do not hide it.
C15_LiveKeyNotHiddenByDeletedRow ==
    [][(/\ RunTask
        /\ NoDuplicate
        /\ m_query # Absent
        /\ Head(tasks).key = Absent
        /\ LiveAheadWithNewKey # {})
          => /\ m_query' # Absent
             /\ m_currentId' = FirstOf(LiveAheadWithNewKey)]_vars

\* C16: on a NoDuplicate cursor no callback reports the key of the delivery
\* just before it, whatever target keys and deletions there were.
C16_NeverSameKeyTwiceInARow ==
    NoDuplicate =>
        \A k \in 1..(Len(Deliveries) - 1) : Deliveries[k] # Deliveries[k + 1]

\* C16 witness: a NoDuplicate cursor whose task carried a target key, passed
\* over a deleted row and reported a row.
C16_Witness ==
    /\ NoDuplicate /\ targeted
    /\ \E k \in DOMAIN fetched : ~fetched[k].live
    /\ Len(Deliveries) = 2
    /\ m_currentKey = Deliveries[2]

\* The rows the statement has yet to step onto.
RemainingRows == IF m_query = Absent THEN 0 ELSE Len(rows) - m_query

\* The rows a step of Next has added to the log of rows stepped onto.
NewlyFetched == SubSeq(fetched', Len(fetched) + 1, Len(fetched'))

\* C17: a task steps the statement forward one row per iteration and ends:
\* either on a row it accepts, having stepped onto at most the remaining
\* rows, or exhausted, having stepped onto every remaining row and then once
\* more; in both cases with one callback.
C17_TaskEndsWithinRemainingRows ==
    [][RunTask =>
        /\ \A j \in DOMAIN NewlyFetched : NewlyFetched[j].id = m_query + j
        /\ Len(callbackLog') = Len(callbackLog) + 1
        /\ \/ /\ m_query' # Absent
              /\ Len(NewlyFetched) \in 1..RemainingRows
              /\ m_query' = m_query + Len(NewlyFetched)
              /\ m_currentId' = m_query'
              /\ callbackLog'[Len(callbackLog')].result = "cursor"
           \/ /\ m_query' = Absent
              /\ Len(NewlyFetched) = RemainingRows
              /\ callbackLog'[Len(callbackLog')].result = "null"]_vars

\* C17 witness: one task with a target key stepped onto a deleted row and
\* then onto the row it accepted; a second task found no further row.
C17_Witness ==
    /\ targeted
    /\ Len(callbackLog) = 2
    /\ callbackLog[1].result = "cursor" /\ callbackLog[1].id = 3
    /\ callbackLog[2].result = "null"
    /\ Len(fetched) = 2 /\ ~fetched[1].live /\ fetched[2].live

\* C18: update and deleteFunction address the row of the cursor's position
\* at the call, with or without tasks queued, and change neither the
\* cursor's statement, position and direction nor the queue; only a task
\* changes the cursor.
C18_MutationActsOnPositionAtCall ==
    [][/\ (Update \/ DeleteFunction) =>
            /\ UNCHANGED <<cursorVars, fixedVars, tasks, callbackLog, fetched>>
            /\ lastCall'.container # <<>> =>
                  /\ Len(lastCall'.container) = 1
                  /\ lastCall'.container[1].key = MutationTarget
       /\ ~RunTask => UNCHANGED cursorVars]_vars

\* C18 witness: update of an index cursor addressed the primary key of row 1
\* while a task was queued; the task has since run from row 1 and stopped at
\* a later row.
C18_Witness ==
    /\ indexCursor
    /\ ncalls = 1 /\ tasks = <<>>
    /\ Len(lastCall.container) = 1
    /\ lastCall.container[1].op = "put"
    /\ lastCall.container[1].key = rowPrimaryKey(1)
    /\ Len(callbackLog) = 1 /\ callbackLog[1].result = "cursor"
    /\ fetched[1].id = 2
    /\ m_currentId > 1
====
